---- MODULE Spec2Model ----
(***************************************************************************)
(* Model of DFA.py: the DFA value, the validator (validate_dfa and the     *)
(* three checks it calls) and the simulator (dfa_accepts).                 *)
(*                                                                         *)
(* A DFA value is chosen at construction and never changes.  The           *)
(* validation functions are pure: one action applies each of them to the   *)
(* DFA value and records what it returned or raised.  dfa_accepts is       *)
(* modelled at the grain of its for loop: one action per iteration, one    *)
(* for the KeyError handler, one for the final return.                     *)
(*                                                                         *)
(* Specifications: Spec (the functions called directly, as the unit tests  *)
(* do), FairSpec (one call of dfa_accepts run to its end), MainSpec        *)
(* (dfa_runner.main) and ConcSpec (two interleaved calls of dfa_accepts).  *)
(***************************************************************************)
EXTENDS Integers, Sequences, FiniteSets, TLC

\* ------------------------------------------------------------------ bounds
\* Longest input string given to dfa_accepts.
MaxLen == 3

\* The universe state identifiers and input characters are drawn from.  A DFA's
\* own `states` and `alphabet` are subsets of these, so that identifiers outside
\* of dfa.states and characters outside of dfa.alphabet exist.
StateIds == {1, 2}
Characters == {"a", "b"}

\* ------------------------------------------------------------- DFA values
\* A dict keyed by (state, character) pairs: a function on a set of pairs.
TransitionMaps == UNION {[K -> StateIds] : K \in SUBSET (StateIds \X Characters)}

\* DFA = namedtuple("DFA", [states, alphabet, transitions, start_state, final_states])
DFA == [states : SUBSET StateIds,
        alphabet : SUBSET Characters,
        transitions : TransitionMaps,
        start_state : StateIds,
        final_states : SUBSET StateIds]

\* The states that are the source of at least one key of a transitions dict.
SourceStates(transitions) == {k[1] : k \in DOMAIN transitions}

\* The orders in which the elements of S can come out of an iteration.
Orders(S) == {o \in [1..Cardinality(S) -> S] : \A i, j \in 1..Cardinality(S) : o[i] = o[j] => i = j}

\* Longest input string given to each of two concurrent calls of dfa_accepts.
MaxConcLen == 2

\* Every finite input string over the character universe, up to MaxLen long.
InputStrings == UNION {[1..n -> Characters] : n \in 0..MaxLen}
ConcInputStrings == UNION {[1..n -> Characters] : n \in 0..MaxConcLen}

VARIABLES
    dfa,            \* the DFA value under validation / simulation
    key_order,      \* order in which transitions.keys() first yields each source state
    vres,           \* outcome of the validation function that was called, if any
    pc,             \* "idle", "checked" (a single check was called), "loop", "done"
    input_string,   \* dfa_accepts: its argument
    pos,            \* dfa_accepts: number of characters the for loop has taken
    current_state,  \* dfa_accepts: the local current_state
    lookups,        \* dfa_accepts: the transition lookups made, in order
    result,         \* dfa_accepts: what it returned or raised
    main,           \* dfa_runner.main: where it is, and args.input_string
    stdout,         \* dfa_runner.main: the lines printed
    other           \* a second, concurrent call of dfa_accepts: its locals

vars == <<dfa, key_order, vres, pc, input_string, pos, current_state, lookups, result,
          main, stdout, other>>

\* ----------------------------------------------------------------- outcomes
Ok == [kind |-> "ok"]
Raise(kind, detail) == [kind |-> kind, detail |-> detail]

NotCalled == [fn |-> "none", kind |-> "none"]
Outcome(fn, r) == IF r.kind = "ok" THEN [fn |-> fn, kind |-> "ok"]
                  ELSE [fn |-> fn, kind |-> r.kind, detail |-> r.detail]

\* --------------------------------------------------------------- validation
\* As validate_final_states, with any(...) written for all(...).
validate_final_states_any(states, final_states) ==
    IF \E final_state \in final_states : final_state \in states
    THEN Ok
    ELSE Raise("AcceptingStates", "Accepting states should be in the list of states")

\* all(final_state in states for final_state in final_states)
validate_final_states(states, final_states) ==
    IF \A final_state \in final_states : final_state \in states
    THEN Ok
    ELSE Raise("AcceptingStates", "Accepting states should be in the list of states")

\* As validate_start_state, the membership test left out.
validate_start_state_unchecked(states, start_state) == Ok

\* if start_state not in states: raise
validate_start_state(states, start_state) ==
    IF start_state \in states
    THEN Ok
    ELSE Raise("StartState", "Start state should be in the list of states")

\* state_character_sets: the characters found in the keys, per source state.
StateCharacterSets(transitions) ==
    [state \in SourceStates(transitions) |->
        {k[2] : k \in {kk \in DOMAIN transitions : kk[1] = state}}]

\* As CheckEachState, with == written for != in the comparison.
CheckEachState_equal(transitions, alphabet, order) ==
    LET sets == StateCharacterSets(transitions)
        bad == {i \in DOMAIN order : sets[order[i]] = alphabet}
    IN  IF bad = {}
        THEN Ok
        ELSE LET first == CHOOSE i \in bad : \A j \in bad : i <= j
             IN  Raise("MissingTransition", order[first])

\* As CheckEachState, the error naming the first state of the iteration
\* whatever state failed the comparison.
CheckEachState_names_first(transitions, alphabet, order) ==
    LET sets == StateCharacterSets(transitions)
        bad == {i \in DOMAIN order : sets[order[i]] # alphabet}
    IN  IF bad = {}
        THEN Ok
        ELSE Raise("MissingTransition", order[1])

\* As CheckEachState, comparing by subset instead of by equality.
CheckEachState_subset(transitions, alphabet, order) ==
    LET sets == StateCharacterSets(transitions)
        bad == {i \in DOMAIN order : ~(sets[order[i]] \subseteq alphabet)}
    IN  IF bad = {}
        THEN Ok
        ELSE LET first == CHOOSE i \in bad : \A j \in bad : i <= j
             IN  Raise("MissingTransition", order[first])

\* The loop over state_character_sets.items(): the first state, in iteration
\* order, whose character set differs from the alphabet raises.
CheckEachState(transitions, alphabet, order) ==
    LET sets == StateCharacterSets(transitions)
        bad == {i \in DOMAIN order : sets[order[i]] # alphabet}
    IN  IF bad = {}
        THEN Ok
        ELSE LET first == CHOOSE i \in bad : \A j \in bad : i <= j
             IN  Raise("MissingTransition", order[first])

\* As InvalidCharacters, the filter on the alphabet left out.
InvalidCharacters_all(transitions, alphabet) ==
    {k[2] : k \in DOMAIN transitions}

\* set(c for s, c in transitions.keys() if c not in alphabet)
InvalidCharacters(transitions, alphabet) ==
    {k[2] : k \in {kk \in DOMAIN transitions : kk[2] \notin alphabet}}

validate_transitions(states, transitions, alphabet, order) ==
    IF ~ \A k \in DOMAIN transitions : k[2] \in alphabet
    THEN Raise("TransitionCharacters", InvalidCharacters(transitions, alphabet))
    ELSE IF ~ \A k \in DOMAIN transitions : k[1] \in states
    THEN Raise("FromState", "A transition goes from an invalid state")
    ELSE IF ~ \A k \in DOMAIN transitions : transitions[k] \in states
    THEN Raise("ToState", transitions)
    ELSE CheckEachState(transitions, alphabet, order)

\* As validate_dfa, the start state checked before the final states.
validate_dfa_start_first(d, order) ==
    LET s == validate_start_state(d.states, d.start_state)
        f == validate_final_states(d.states, d.final_states)
    IN  IF s.kind # "ok" THEN s
        ELSE IF f.kind # "ok" THEN f
        ELSE validate_transitions(d.states, d.transitions, d.alphabet, order)

\* The three calls of validate_dfa; an exception raised by one ends it.
validate_dfa(d, order) ==
    LET f == validate_final_states(d.states, d.final_states)
        s == validate_start_state(d.states, d.start_state)
    IN  IF f.kind # "ok" THEN f
        ELSE IF s.kind # "ok" THEN s
        ELSE validate_transitions(d.states, d.transitions, d.alphabet, order)

\* --------------------------------------------------------------- simulation
NoResult == [kind |-> "none"]
Return(value) == [kind |-> "return", value |-> value]
RaiseInvalidDFA(state, character) ==
    [kind |-> "raise", state |-> state, character |-> character]

\* The looked-up state dropped: current_state is never updated.
NextState_unchanged(d, state, character) == state

\* current_state = dfa.transitions[(current_state, character)]
NextState(d, state, character) == d.transitions[<<state, character>>]

\* As KeyErrorOutcome, every missing key rejected silently.
KeyErrorOutcome_silent(d, key) == Return(FALSE)

\* As KeyErrorOutcome, every missing key reported as a defect.
KeyErrorOutcome_raising(d, key) == RaiseInvalidDFA(key[1], key[2])

\* As KeyErrorOutcome, the error naming the start state instead of the state of
\* the missing key.
KeyErrorOutcome_names_start(d, key) ==
    IF key[2] \notin d.alphabet
    THEN Return(FALSE)
    ELSE RaiseInvalidDFA(d.start_state, key[2])

\* The except KeyError branch: key is e.args[0], the key that was not found.
KeyErrorOutcome(d, key) ==
    LET state == key[1]
        character == key[2]
    IN  IF character \notin d.alphabet
        THEN Return(FALSE)
        ELSE RaiseInvalidDFA(state, character)

\* As FinalVerdict, the membership test negated.
FinalVerdict_negated(d, state) == Return(state \notin d.final_states)

\* return current_state in dfa.final_states
FinalVerdict(d, state) == Return(state \in d.final_states)

\* dfa_accepts run from its entry to its end with nothing in between: the loop
\* from position i in state `state`, then the handler or the return.
RECURSIVE RunLoop(_, _, _, _)
RunLoop(d, s, state, i) ==
    IF i > Len(s)
    THEN FinalVerdict(d, state)
    ELSE IF <<state, s[i]>> \in DOMAIN d.transitions
         THEN RunLoop(d, s, NextState(d, state, s[i]), i + 1)
         ELSE KeyErrorOutcome(d, <<state, s[i]>>)

dfa_accepts(d, s) == RunLoop(d, s, d.start_state, 1)

\* ------------------------------------------------------------------- state
\* main is not running (the functions are called directly, as the tests do).
MainOff == [pc |-> "off", input_string |-> << >>]

\* The second call has not been made.
OtherIdle(d) == [pc |-> "idle", input_string |-> << >>, pos |-> 0,
                 current_state |-> d.start_state, result |-> NoResult]

Init ==
    /\ dfa \in DFA
    /\ key_order \in Orders(SourceStates(dfa.transitions))
    /\ vres = NotCalled
    /\ pc = "idle"
    /\ input_string = << >>
    /\ pos = 0
    /\ current_state = dfa.start_state
    /\ lookups = << >>
    /\ result = NoResult
    /\ main = MainOff
    /\ stdout = << >>
    /\ other = OtherIdle(dfa)

\* What the functions of DFA.py, called by the first caller, leave alone.
RestUnchanged == UNCHANGED <<main, stdout, other>>

SimUnchanged == UNCHANGED <<input_string, pos, current_state, lookups, result>>

\* validate_dfa(dfa), as main and the tests' setUp call it.  When it raises,
\* the exception ends the caller: nothing is simulated afterwards.
CallValidateDfa ==
    /\ pc = "idle"
    /\ vres.fn = "none"
    /\ LET r == validate_dfa(dfa, key_order)
       IN  /\ vres' = Outcome("validate_dfa", r)
           /\ pc' = IF r.kind = "ok" THEN "idle" ELSE "checked"
    /\ UNCHANGED <<dfa, key_order>>
    /\ SimUnchanged
    /\ RestUnchanged

\* The single checks, called on their own as the unit tests do.
CallValidateFinalStates ==
    /\ pc = "idle"
    /\ vres.fn = "none"
    /\ vres' = Outcome("validate_final_states",
                       validate_final_states(dfa.states, dfa.final_states))
    /\ pc' = "checked"
    /\ UNCHANGED <<dfa, key_order>>
    /\ SimUnchanged
    /\ RestUnchanged

CallValidateStartState ==
    /\ pc = "idle"
    /\ vres.fn = "none"
    /\ vres' = Outcome("validate_start_state",
                       validate_start_state(dfa.states, dfa.start_state))
    /\ pc' = "checked"
    /\ UNCHANGED <<dfa, key_order>>
    /\ SimUnchanged
    /\ RestUnchanged

CallValidateTransitions ==
    /\ pc = "idle"
    /\ vres.fn = "none"
    /\ vres' = Outcome("validate_transitions",
                       validate_transitions(dfa.states, dfa.transitions, dfa.alphabet, key_order))
    /\ pc' = "checked"
    /\ UNCHANGED <<dfa, key_order>>
    /\ SimUnchanged
    /\ RestUnchanged

\* dfa_accepts(dfa, s): entry, current_state = dfa.start_state.
CallDfaAccepts(s) ==
    /\ pc = "idle"
    /\ input_string' = s
    /\ pos' = 0
    /\ current_state' = dfa.start_state
    /\ lookups' = << >>
    /\ result' = NoResult
    /\ pc' = "loop"
    /\ UNCHANGED <<dfa, key_order, vres>>
    /\ RestUnchanged

\* As LoopStep, the for loop handing out every character twice.
LoopStep_same_character ==
    /\ pc = "loop"
    /\ pos < Len(input_string)
    /\ LET character == input_string[pos + 1]
           key == <<current_state, character>>
       IN  /\ key \in DOMAIN dfa.transitions
           /\ lookups' = Append(lookups, [index |-> pos + 1, key |-> key])
           /\ current_state' = NextState(dfa, current_state, character)
    /\ pos' = IF lookups # << >> /\ lookups[Len(lookups)].index = pos + 1
              THEN pos + 1
              ELSE pos
    /\ UNCHANGED <<dfa, key_order, vres, pc, input_string, result>>
    /\ RestUnchanged

\* One iteration of the for loop whose lookup finds the key.
LoopStep ==
    /\ pc = "loop"
    /\ pos < Len(input_string)
    /\ LET character == input_string[pos + 1]
           key == <<current_state, character>>
       IN  /\ key \in DOMAIN dfa.transitions
           /\ lookups' = Append(lookups, [index |-> pos + 1, key |-> key])
           /\ current_state' = NextState(dfa, current_state, character)
    /\ pos' = pos + 1
    /\ UNCHANGED <<dfa, key_order, vres, pc, input_string, result>>
    /\ RestUnchanged

\* As LoopKeyError, the failed lookup leaving the key behind in the dict (the
\* way a defaultdict does).
LoopKeyError_inserting ==
    /\ pc = "loop"
    /\ pos < Len(input_string)
    /\ LET character == input_string[pos + 1]
           key == <<current_state, character>>
       IN  /\ key \notin DOMAIN dfa.transitions
           /\ lookups' = Append(lookups, [index |-> pos + 1, key |-> key])
           /\ result' = KeyErrorOutcome(dfa, key)
           /\ dfa' = [dfa EXCEPT !.transitions = (key :> current_state) @@ @]
    /\ pos' = pos + 1
    /\ pc' = "done"
    /\ UNCHANGED <<key_order, vres, input_string, current_state>>
    /\ RestUnchanged

\* One iteration whose lookup raises KeyError, and the handler that ends the call.
LoopKeyError ==
    /\ pc = "loop"
    /\ pos < Len(input_string)
    /\ LET character == input_string[pos + 1]
           key == <<current_state, character>>
       IN  /\ key \notin DOMAIN dfa.transitions
           /\ lookups' = Append(lookups, [index |-> pos + 1, key |-> key])
           /\ result' = KeyErrorOutcome(dfa, key)
    /\ pos' = pos + 1
    /\ pc' = "done"
    /\ UNCHANGED <<dfa, key_order, vres, input_string, current_state>>
    /\ RestUnchanged

\* The loop is exhausted: return current_state in dfa.final_states.
ReturnVerdict ==
    /\ pc = "loop"
    /\ pos = Len(input_string)
    /\ result' = FinalVerdict(dfa, current_state)
    /\ pc' = "done"
    /\ UNCHANGED <<dfa, key_order, vres, input_string, pos, current_state, lookups>>
    /\ RestUnchanged

Next ==
    \/ CallValidateDfa
    \/ CallValidateFinalStates
    \/ CallValidateStartState
    \/ CallValidateTransitions
    \/ \E s \in InputStrings : CallDfaAccepts(s)
    \/ LoopStep
    \/ LoopKeyError
    \/ ReturnVerdict

Spec == Init /\ [][Next]_vars

\* dfa_accepts alone, on any DFA value, for the claims about a call running to
\* its end.  dfa_accepts reads neither dfa.states nor the order of the dict:
\* states is the whole universe and one order is kept.
\* A call runs on: Python executes the loop and the return without any
\* suspension point, which is what the weak fairness states.
SimInit ==
    /\ Init
    /\ dfa.states = StateIds
    /\ key_order = CHOOSE o \in Orders(SourceStates(dfa.transitions)) : TRUE

SimNext ==
    \/ \E s \in InputStrings : CallDfaAccepts(s)
    \/ LoopStep
    \/ LoopKeyError
    \/ ReturnVerdict

FairSpec ==
    /\ SimInit /\ [][SimNext]_vars
    /\ WF_vars(LoopStep) /\ WF_vars(LoopKeyError) /\ WF_vars(ReturnVerdict)

\* ------------------------------------------- two concurrent calls of dfa_accepts
\* The second call runs the same code on the same DFA value, with its own
\* locals (the record `other`); its steps interleave with the first call's.
OtherUnchanged ==
    UNCHANGED <<dfa, key_order, vres, pc, input_string, pos, current_state, lookups,
                result, main, stdout>>

OtherCallDfaAccepts(s) ==
    /\ other.pc = "idle"
    /\ other' = [pc |-> "loop", input_string |-> s, pos |-> 0,
                 current_state |-> dfa.start_state, result |-> NoResult]
    /\ OtherUnchanged

\* As OtherLoopStep, current_state being one register shared by the two calls
\* (a module-level variable) instead of a local.
OtherLoopStep_shared_register ==
    /\ other.pc = "loop"
    /\ other.pos < Len(other.input_string)
    /\ LET character == other.input_string[other.pos + 1]
           key == <<current_state, character>>
       IN  /\ key \in DOMAIN dfa.transitions
           /\ current_state' = NextState(dfa, current_state, character)
           /\ other' = [other EXCEPT !.pos = @ + 1, !.current_state = current_state']
    /\ UNCHANGED <<dfa, key_order, vres, pc, input_string, pos, lookups,
                   result, main, stdout>>

OtherLoopStep ==
    /\ other.pc = "loop"
    /\ other.pos < Len(other.input_string)
    /\ LET character == other.input_string[other.pos + 1]
           key == <<other.current_state, character>>
       IN  /\ key \in DOMAIN dfa.transitions
           /\ other' = [other EXCEPT !.pos = @ + 1,
                                     !.current_state = NextState(dfa, @, character)]
    /\ OtherUnchanged

OtherLoopKeyError ==
    /\ other.pc = "loop"
    /\ other.pos < Len(other.input_string)
    /\ LET character == other.input_string[other.pos + 1]
           key == <<other.current_state, character>>
       IN  /\ key \notin DOMAIN dfa.transitions
           /\ other' = [other EXCEPT !.pos = @ + 1, !.pc = "done",
                                     !.result = KeyErrorOutcome(dfa, key)]
    /\ OtherUnchanged

OtherReturnVerdict ==
    /\ other.pc = "loop"
    /\ other.pos = Len(other.input_string)
    /\ other' = [other EXCEPT !.pc = "done",
                              !.result = FinalVerdict(dfa, other.current_state)]
    /\ OtherUnchanged

\* As for SimInit, dfa_accepts reads neither dfa.states nor the order of the
\* dict.  State identifiers are opaque: the DFAs that start in the other state
\* are these with the two identifiers swapped.
ConcInit ==
    /\ SimInit
    /\ dfa.start_state = 1

ConcNext ==
    \/ \E s \in ConcInputStrings : CallDfaAccepts(s)
    \/ LoopStep
    \/ LoopKeyError
    \/ ReturnVerdict
    \/ \E s \in ConcInputStrings : OtherCallDfaAccepts(s)
    \/ OtherLoopStep
    \/ OtherLoopKeyError
    \/ OtherReturnVerdict

ConcSpec == ConcInit /\ [][ConcNext]_vars

\* ------------------------------------------------------- dfa_runner.main
\* The process starts with a DFA parsed from the yaml file and an input string
\* on the command line.
MainInit ==
    /\ dfa \in DFA
    /\ key_order \in Orders(SourceStates(dfa.transitions))
    /\ vres = NotCalled
    /\ pc = "idle"
    /\ input_string = << >>
    /\ pos = 0
    /\ current_state = dfa.start_state
    /\ lookups = << >>
    /\ result = NoResult
    /\ main \in [pc : {"start"}, input_string : InputStrings]
    /\ stdout = << >>
    /\ other = OtherIdle(dfa)

\* print("Loaded DFA: ..."); print("Input string: ...")
MainLoad ==
    /\ main.pc = "start"
    /\ stdout' = stdout \o <<"Loaded DFA", "Input string">>
    /\ main' = [main EXCEPT !.pc = "loaded"]
    /\ UNCHANGED <<dfa, key_order, vres, pc, other>>
    /\ SimUnchanged

\* validate_dfa(dfa): an InvalidDFA it raises is not caught, and ends main.
MainValidate ==
    /\ main.pc = "loaded"
    /\ LET r == validate_dfa(dfa, key_order)
       IN  /\ vres' = Outcome("validate_dfa", r)
           /\ main' = [main EXCEPT !.pc = IF r.kind = "ok" THEN "validated" ELSE "failed"]
    /\ UNCHANGED <<dfa, key_order, pc, stdout, other>>
    /\ SimUnchanged

\* As MainCallAccepts, called before validate_dfa instead of after it.
MainCallAccepts_before_validate ==
    /\ main.pc = "loaded"
    /\ pc = "idle"
    /\ input_string' = main.input_string
    /\ pos' = 0
    /\ current_state' = dfa.start_state
    /\ lookups' = << >>
    /\ result' = NoResult
    /\ pc' = "loop"
    /\ main' = [main EXCEPT !.pc = "simulating"]
    /\ UNCHANGED <<dfa, key_order, vres, stdout, other>>

\* accepts = dfa_accepts(dfa, args.input_string): the call is entered.
MainCallAccepts ==
    /\ main.pc = "validated"
    /\ pc = "idle"
    /\ input_string' = main.input_string
    /\ pos' = 0
    /\ current_state' = dfa.start_state
    /\ lookups' = << >>
    /\ result' = NoResult
    /\ pc' = "loop"
    /\ main' = [main EXCEPT !.pc = "simulating"]
    /\ UNCHANGED <<dfa, key_order, vres, stdout, other>>

\* dfa_accepts has ended: the verdict is printed, or the InvalidDFA it raised
\* ends main.
MainPrintVerdict ==
    /\ main.pc = "simulating"
    /\ pc = "done"
    /\ IF result.kind = "return"
       THEN /\ stdout' = Append(stdout, IF result.value THEN "DFA accepts string"
                                                         ELSE "DFA doens't accept string")
            /\ main' = [main EXCEPT !.pc = "exited"]
       ELSE /\ stdout' = stdout
            /\ main' = [main EXCEPT !.pc = "failed"]
    /\ UNCHANGED <<dfa, key_order, vres, pc, other>>
    /\ SimUnchanged

MainNext ==
    \/ MainLoad
    \/ MainValidate
    \/ MainCallAccepts
    \/ LoopStep
    \/ LoopKeyError
    \/ ReturnVerdict
    \/ MainPrintVerdict

MainSpec == MainInit /\ [][MainNext]_vars

\* ------------------------------------------------- the DFA definition (spec)
\* The five well-formedness conditions of a DFA value.
Inv1(d) == d.final_states \subseteq d.states
Inv2(d) == d.start_state \in d.states
Inv3(d) == \A k \in DOMAIN d.transitions : k[1] \in d.states /\ k[2] \in d.alphabet
Inv4(d) == \A k \in DOMAIN d.transitions : d.transitions[k] \in d.states
Inv5(d) == \A s \in d.states : {c \in Characters : <<s, c>> \in DOMAIN d.transitions} = d.alphabet
WellFormed(d) == Inv1(d) /\ Inv2(d) /\ Inv3(d) /\ Inv4(d) /\ Inv5(d)

\* The extended transition function: the state reached from q on the first n
\* characters of s, as a set: {state}, or {} once a pair (state, character) on
\* the way is no key of the transitions.
RECURSIVE StateAfter(_, _, _, _)
StateAfter(d, q, s, n) ==
    IF n = 0 THEN {q}
    ELSE {d.transitions[<<p, s[n]>>] :
            p \in {pp \in StateAfter(d, q, s, n - 1) : <<pp, s[n]>> \in DOMAIN d.transitions}}

\* The positions of s whose lookup fails, the earlier ones having succeeded
\* (at most one position).
FirstFailure(d, s) ==
    {i \in 1..Len(s) : /\ StateAfter(d, d.start_state, s, i - 1) # {}
                       /\ StateAfter(d, d.start_state, s, i) = {}}

InAlphabet(d, s) == \A i \in 1..Len(s) : s[i] \in d.alphabet

Validated == vres.fn = "validate_dfa" /\ vres.kind = "ok"
Finished == pc = "done"

\* ------------------------------------------------------------------ claims

\* C1. Totality round-trip: once validate_dfa has returned without error,
\* dfa_accepts on an input whose characters are all in the alphabet returns a
\* boolean and never raises the undefined-transition InvalidDFA.
\* (Refuted: a state that is the source of no transition escapes the check.)
C1_TotalityRoundTrip ==
    (Validated /\ Finished /\ InAlphabet(dfa, input_string)) => result.kind = "return"

\* C2. Validator soundness: once validate_dfa has returned without error, the
\* DFA satisfies all five invariants; in particular every state of `states`
\* has a transition on every character of the alphabet.
\* (Refuted: states that are the source of no transition are never examined.)
C2_ValidatorSoundness ==
    Validated => WellFormed(dfa)

\* C3. Alphabet-rejection law: once validate_dfa has returned without error,
\* dfa_accepts on an input holding at least one character outside the alphabet
\* returns false and raises nothing.
\* (Refuted: an in-alphabet character before it can hit a missing transition.)
C3_AlphabetRejection ==
    (Validated /\ Finished /\ ~InAlphabet(dfa, input_string)) => result = Return(FALSE)

\* C4. Acceptance: for a DFA satisfying invariants 1-5 and an input drawn from
\* the alphabet, dfa_accepts returns true exactly when the state reached by
\* applying the transitions to the input, in order from start_state, is final.
C4_Acceptance ==
    (Finished /\ WellFormed(dfa) /\ InAlphabet(dfa, input_string)) =>
        /\ result.kind = "return"
        /\ \E q \in StateAfter(dfa, dfa.start_state, input_string, Len(input_string)) :
              result.value = (q \in dfa.final_states)

C4_Witness ==
    /\ Finished /\ WellFormed(dfa) /\ InAlphabet(dfa, input_string)
    /\ Len(input_string) >= 2
    /\ input_string[1] # input_string[2]
    /\ current_state # dfa.start_state
    /\ result = Return(TRUE)

\* C5. Empty-input law: for every DFA value, validated or not, dfa_accepts on
\* the empty input returns exactly (start_state in final_states), makes no
\* transition lookup and raises nothing.
C5_EmptyInput ==
    (Finished /\ input_string = << >>) =>
        /\ result = Return(dfa.start_state \in dfa.final_states)
        /\ lookups = << >>

C5_Witness ==
    /\ Finished /\ input_string = << >>
    /\ ~WellFormed(dfa) /\ vres.fn = "none"
    /\ DOMAIN dfa.transitions = {}
    /\ result = Return(TRUE)

\* C6. Undefined-transition defect: for any DFA, when a lookup (current_state,
\* c) fails and c is in the alphabet, the call raises the undefined-transition
\* error naming exactly the state reached on the characters before c, and c;
\* it returns neither true nor false.
C6_UndefinedTransition ==
    Finished =>
        \A i \in FirstFailure(dfa, input_string) :
            input_string[i] \in dfa.alphabet =>
                \E q \in StateAfter(dfa, dfa.start_state, input_string, i - 1) :
                    result = RaiseInvalidDFA(q, input_string[i])

C6_Witness ==
    /\ Finished
    /\ \E i \in FirstFailure(dfa, input_string) :
          /\ i >= 2
          /\ input_string[i] \in dfa.alphabet
          /\ StateAfter(dfa, dfa.start_state, input_string, i - 1) # {dfa.start_state}
    /\ result.kind = "raise"

\* C7. Immediate rejection: for any DFA, when the first failing lookup is on a
\* character c outside the alphabet, the call returns false there, whatever
\* follows c (also an in-alphabet character with a missing transition); no
\* character after c is looked up.
C7_ImmediateRejection ==
    Finished =>
        \A i \in FirstFailure(dfa, input_string) :
            input_string[i] \notin dfa.alphabet =>
                /\ result = Return(FALSE)
                /\ Len(lookups) = i
                /\ \A j \in 1..Len(lookups) : lookups[j].index <= i

C7_Witness ==
    /\ Finished
    /\ result = Return(FALSE)
    /\ \E i \in FirstFailure(dfa, input_string) :
          /\ input_string[i] \notin dfa.alphabet
          /\ \E j \in (i + 1)..Len(input_string) :
                /\ input_string[j] \in dfa.alphabet
                /\ <<current_state, input_string[j]>> \notin DOMAIN dfa.transitions

\* The six checks of the validator, in its order, each stated on its own, and
\* the error each raises.
CheckHolds(d) ==
    << d.final_states \subseteq d.states,
       d.start_state \in d.states,
       {k[2] : k \in DOMAIN d.transitions} \subseteq d.alphabet,
       {k[1] : k \in DOMAIN d.transitions} \subseteq d.states,
       {d.transitions[k] : k \in DOMAIN d.transitions} \subseteq d.states,
       \A s \in SourceStates(d.transitions) :
           {c \in Characters : <<s, c>> \in DOMAIN d.transitions} = d.alphabet >>

CheckError ==
    <<"AcceptingStates", "StartState", "TransitionCharacters", "FromState", "ToState",
      "MissingTransition">>

ViolatedChecks(d) == {i \in DOMAIN CheckError : ~CheckHolds(d)[i]}

\* C8. Fixed check order, fail-fast: validate_dfa reports exactly one error,
\* that of the earliest violated check in the order final states, start state,
\* transition characters, transition sources, transition destinations,
\* totality; no later check's error is reported while an earlier check fails.
C8_CheckOrder ==
    (vres.fn = "validate_dfa" /\ ViolatedChecks(dfa) # {}) =>
        /\ vres.kind \in {CheckError[i] : i \in DOMAIN CheckError}
        /\ \A i \in ViolatedChecks(dfa) :
              (\A j \in ViolatedChecks(dfa) : i <= j) => vres.kind = CheckError[i]
        /\ \A i, j \in ViolatedChecks(dfa) : i < j => vres.kind # CheckError[j]

C8_Witness ==
    /\ vres.fn = "validate_dfa"
    /\ ViolatedChecks(dfa) = {1, 2, 3, 5, 6}
    /\ vres.kind = "AcceptingStates"

\* C9. Validator completeness: for every DFA value satisfying invariants 1-5
\* (final_states may be empty or all of states), validate_dfa returns without
\* raising.
C9_ValidatorCompleteness ==
    (vres.fn = "validate_dfa" /\ WellFormed(dfa)) => vres.kind = "ok"

C9_Witness ==
    /\ Validated /\ WellFormed(dfa)
    /\ dfa.states = StateIds /\ dfa.alphabet = Characters
    /\ dfa.final_states = {}

\* C10. validate_final_states raises the accepting-states error if and only if
\* some element of final_states is not in states (also when other elements
\* are); validate_start_state raises the start-state error if and only if
\* start_state is not in states.
C10_FinalAndStartChecks ==
    /\ vres.fn = "validate_final_states" =>
          /\ vres.kind \in {"ok", "AcceptingStates"}
          /\ vres.kind = "AcceptingStates" <=> (\E f \in dfa.final_states : f \notin dfa.states)
    /\ vres.fn = "validate_start_state" =>
          /\ vres.kind \in {"ok", "StartState"}
          /\ vres.kind = "StartState" <=> dfa.start_state \notin dfa.states

C10_Witness ==
    /\ vres.fn = "validate_final_states"
    /\ vres.kind = "AcceptingStates"
    /\ \E f \in dfa.final_states : f \in dfa.states

\* The validation functions that run validate_transitions.
RanTransitionChecks ==
    \/ vres.fn = "validate_transitions"
    \/ vres.fn = "validate_dfa" /\ CheckHolds(dfa)[1] /\ CheckHolds(dfa)[2]

\* { c : (s, c) is a key of transitions and c is not in alphabet }
UnknownCharacters(d) ==
    {c \in Characters : c \notin d.alphabet /\ \E s \in StateIds : <<s, c>> \in DOMAIN d.transitions}

\* C11. Unknown-symbol diagnostic: when some transition key uses a character
\* outside the alphabet, validate_transitions raises the unknown-characters
\* error, and the set it carries is exactly the characters of the keys that
\* are not in the alphabet: none in the alphabet, no offending one left out.
C11_UnknownCharacters ==
    (RanTransitionChecks /\ UnknownCharacters(dfa) # {}) =>
        /\ vres.kind = "TransitionCharacters"
        /\ vres.detail = UnknownCharacters(dfa)

C11_Witness ==
    /\ vres.fn = "validate_transitions"
    /\ vres.kind = "TransitionCharacters"
    /\ dfa.alphabet = {"a"}
    /\ vres.detail = {"b"}
    /\ \E s \in StateIds : <<s, "a">> \in DOMAIN dfa.transitions

\* The characters of the keys whose source is s.
CharactersOf(d, s) == {c \in Characters : <<s, c>> \in DOMAIN d.transitions}

\* The states with at least one transition that lack one on some character
\* of the alphabet.
LackingStates(d) ==
    {s \in StateIds : /\ CharactersOf(d, s) # {}
                      /\ \E c \in d.alphabet : c \notin CharactersOf(d, s)}

\* C12. Incomplete-transition diagnostic: whenever validate_transitions raises
\* the incomplete-transition-function error, checks 3-5 have passed and the
\* state it names has a set of transition characters different from the
\* alphabet; when exactly one state with at least one transition lacks a
\* transition on some alphabet character, that state is the one named.
C12_IncompleteTransition ==
    /\ vres.kind = "MissingTransition" =>
          /\ RanTransitionChecks
          /\ CheckHolds(dfa)[3] /\ CheckHolds(dfa)[4] /\ CheckHolds(dfa)[5]
          /\ vres.detail \in SourceStates(dfa.transitions)
          /\ CharactersOf(dfa, vres.detail) # dfa.alphabet
    /\ \A s \in StateIds :
          ( /\ RanTransitionChecks
            /\ CheckHolds(dfa)[3] /\ CheckHolds(dfa)[4] /\ CheckHolds(dfa)[5]
            /\ LackingStates(dfa) = {s} ) =>
              /\ vres.kind = "MissingTransition"
              /\ vres.detail = s

C12_Witness ==
    /\ vres.fn = "validate_transitions"
    /\ vres.kind = "MissingTransition"
    /\ Len(key_order) = 2
    /\ LackingStates(dfa) = {key_order[2]}
    /\ vres.detail = key_order[2]

\* The DFA of the odd-number-of-a's scenario.
OddNumberOfAs ==
    [states |-> {1, 2},
     alphabet |-> {"a", "b"},
     transitions |-> (<<1, "a">> :> 2) @@ (<<1, "b">> :> 1) @@
                     (<<2, "a">> :> 1) @@ (<<2, "b">> :> 2),
     start_state |-> 1,
     final_states |-> {2}]

NumberOfAs(s) == Cardinality({i \in 1..Len(s) : s[i] = "a"})

\* C18. Odd-number-of-a's scenario: on the DFA with states {1,2}, alphabet
\* {a,b}, start 1, final {2} and transitions (1,a)->2, (1,b)->1, (2,a)->1,
\* (2,b)->2, validate_dfa succeeds and dfa_accepts returns true on a string
\* over {a,b} exactly when it holds an odd number of a's.
C18_OddNumberOfAs ==
    dfa = OddNumberOfAs =>
        /\ vres.fn = "validate_dfa" => vres.kind = "ok"
        /\ Finished => result = Return(NumberOfAs(input_string) % 2 = 1)

C18_Witness ==
    /\ dfa = OddNumberOfAs
    /\ Validated /\ Finished
    /\ input_string = <<"a", "b", "a">>
    /\ result = Return(FALSE)

\* C19. Current-state invariant: once validate_dfa has returned without error,
\* at every step of dfa_accepts on any input (also one with characters outside
\* the alphabet) the current state is a member of states.
C19_CurrentStateInStates ==
    (Validated /\ pc \in {"loop", "done"}) => current_state \in dfa.states

C19_Witness ==
    /\ Validated /\ pc = "loop"
    /\ pos >= 2
    /\ ~InAlphabet(dfa, input_string)
    /\ dfa.states # StateIds
    /\ current_state \in dfa.states

\* C20. Per-source-state guarantee: once validate_dfa has returned without
\* error, every state that is the source of at least one transition key has a
\* transition on every character of the alphabet and on no other character.
C20_SourceStatesTotal ==
    Validated =>
        \A s \in SourceStates(dfa.transitions) : CharactersOf(dfa, s) = dfa.alphabet

C20_Witness ==
    /\ Validated
    /\ dfa.alphabet = Characters
    /\ Cardinality(SourceStates(dfa.transitions)) = 1
    /\ dfa.states = StateIds

\* C15. Frame: no call of a validation function or of dfa_accepts, whether it
\* returns or raises, changes any of the five DFA fields (nor the order of the
\* transitions dict); in particular a failed lookup adds no key to transitions.
C15_Frame ==
    [][dfa' = dfa /\ key_order' = key_order]_vars

C15_Witness ==
    /\ Validated /\ Finished
    /\ result.kind = "raise"
    /\ lookups[Len(lookups)].key \notin DOMAIN dfa.transitions

\* C16. Single-pass termination: on an input of length n dfa_accepts ends with
\* exactly one of true, false or the undefined-transition error, after at most
\* n lookups, which take the characters in input order, each position once.
C16_SinglePass ==
    /\ [](pc \in {"loop", "done"} =>
            /\ Len(lookups) <= Len(input_string)
            /\ \A j \in 1..Len(lookups) :
                  /\ lookups[j].index = j
                  /\ lookups[j].key[2] = input_string[j]
            /\ pc = "loop" => result.kind = "none"
            /\ pc = "done" => result.kind \in {"return", "raise"})
    /\ (pc = "loop") ~> (pc = "done")

C16_Witness ==
    /\ Finished
    /\ Len(input_string) >= 2
    /\ Len(lookups) = Len(input_string)
    /\ result.kind = "return"

\* The verdict lines main can print.
Verdicts == {"DFA accepts string", "DFA doens't accept string"}

\* C13. Validate-then-simulate discipline: in main, dfa_accepts is invoked only
\* after validate_dfa has returned without error on the same DFA; when
\* validate_dfa raises, dfa_accepts is never invoked and no accept/reject
\* verdict is printed.
C13_ValidateThenSimulate ==
    /\ (pc \in {"loop", "done"} \/ main.pc \in {"simulating", "exited"}) => Validated
    /\ (vres.fn = "validate_dfa" /\ vres.kind # "ok") =>
          /\ main.pc = "failed"
          /\ pc = "idle" /\ lookups = << >> /\ result.kind = "none"
          /\ \A i \in 1..Len(stdout) : stdout[i] \notin Verdicts
    /\ (\E i \in 1..Len(stdout) : stdout[i] \in Verdicts) => (Validated /\ pc = "done")

C13_Witness ==
    /\ main.pc = "failed"
    /\ vres.fn = "validate_dfa" /\ vres.kind = "MissingTransition"
    /\ Len(main.input_string) >= 1
    /\ Len(stdout) = 2

\* C17. Concurrent simulations of one DFA value: when two calls of dfa_accepts
\* with arbitrary inputs are interleaved step by step in any order, each call
\* ends with the result (true, false or error) it gives when run alone, its
\* current-state register being its own.
C17_ConcurrentCalls ==
    /\ pc = "done" => result = dfa_accepts(dfa, input_string)
    /\ other.pc = "done" => other.result = dfa_accepts(dfa, other.input_string)

C17_Witness ==
    /\ pc = "done" /\ other.pc = "done"
    /\ Len(input_string) = 2 /\ Len(other.input_string) = 2
    /\ input_string # other.input_string
    /\ current_state # other.current_state
    /\ result = Return(TRUE)
    /\ other.result.kind = "raise"

\* The string s without its first n characters.
Suffix(s, n) == SubSeq(s, n + 1, Len(s))

\* C21. Concatenation law: for any DFA and inputs u, v such that every lookup
\* on u succeeds and ends in state q, dfa_accepts on u followed by v has the
\* outcome (true, false, or the error with the same state and character) of
\* dfa_accepts on v with the DFA's start_state replaced by q.
C21_Concatenation ==
    Finished =>
        \A n \in 0..Len(input_string) :
            \A q \in StateAfter(dfa, dfa.start_state, input_string, n) :
                result = dfa_accepts([dfa EXCEPT !.start_state = q],
                                     Suffix(input_string, n))

C21_Witness ==
    /\ Finished
    /\ result.kind = "raise"
    /\ \E n \in 1..(Len(input_string) - 2) :
          \E q \in StateAfter(dfa, dfa.start_state, input_string, n) :
              /\ q # dfa.start_state
              /\ result.state # q

====
